---- MODULE Spec2Model ----
(***************************************************************************)
(* The geofenced reminder notifications of pingme                          *)
(* (src/services/notificationService.tsx): the background location task,   *)
(* checkNearbyReminders with its triggered set and cooldown timers, and    *)
(* NotificationService.startLocationTracking / stopLocationTracking.       *)
(*                                                                         *)
(* One step of the model is one run of JavaScript between two awaits: a    *)
(* handler runs without interruption until it awaits, and any other        *)
(* handler, timer callback or UI call may run before it is resumed.        *)
(*                                                                         *)
(* Coordinates: every point of the model lies on one meridian (longitude   *)
(* 0), and a latitude is counted in metres of arc, i.e. in units of        *)
(* 1 / (R * 1000) radian.  On one meridian the haversine term a is         *)
(* sin^2(dLat/2), c is |dLat| and R * c * 1000 is |lat2 - lat1| units.     *)
(*                                                                         *)
(* Time: the clock advances in steps of ClockStepMs; a timer set with      *)
(* setTimeout runs its callback at or after its delay.                     *)
(*                                                                         *)
(* Specifications: Spec (handler invocations may overlap), SpecSerial (one *)
(* invocation at a time), SpecThreshold (reminders placed at exactly 100   *)
(* and 200 m of the samples), SpecApi (every operation of the class, with  *)
(* what each call returned and logged), SpecDistance (calculateDistance   *)
(* on its own, in fixed-point arithmetic and real coordinates),            *)
(* SpecHandler (the task handler on its own, with every payload and the    *)
(* exit of every run recorded), SpecServer (reminders deactivated and      *)
(* deleted on the server between fetches), SpecBounded (SpecSerial with    *)
(* the removals from the triggered set counted), SpecCooldown (the timers, *)
(* with time passing and due callbacks run), SpecTasks (the second task    *)
(* definition on the same name, src/unnamed/part_006) and SpecRestart      *)
(* (startLocationTracking called while monitoring runs).                   *)
(***************************************************************************)
EXTENDS Integers, Sequences, FiniteSets, Bags, TLC

VARIABLES
    server,              \* the reminder list GET /api/reminders returns
    registered,          \* is BACKGROUND_LOCATION_TASK registered with the OS
    triggeredReminders,  \* the module-level Set<string>
    timers,              \* bag of pending setTimeout callbacks [id, rem]
    tick,                \* the task handler invocations in flight
    ui,                  \* the start/stop call in progress
    sent,                \* per id: calls of sendLocationNotification
    ev,                  \* per id: what happened to it, in order
    nTicks,              \* location samples delivered so far
    stopRan,             \* has stopLocationTracking returned yet
    uncaught,            \* has an exception left a task handler
    ret,                 \* what the last NotificationService call returned
    calc,                \* two points and the distance computed for them
    executor,            \* the module whose defineTask bound the task name
    delivered,           \* per id: notifications the OS accepted
    history,             \* handler invocations and calls that ended, in order
    removed              \* per id: times it was taken out of the triggered set

vars == <<server, registered, triggeredReminders, timers, tick, ui,
          sent, ev, nTicks, stopRan, uncaught, ret, calc,
          executor, delivered, history, removed>>

-----------------------------------------------------------------------------
\* Bounds of the model.

MaxTicks == 3

\* Location samples delivered in the specification of the API calls.
MaxApiTicks == 1

\* Location samples delivered in the specification of the thresholds.
MaxThresholdTicks == 2

\* Location samples delivered in the specification of the server's edits.
MaxServerTicks == 2

\* Location samples delivered in the specification of the cooldown timers.
MaxCooldownTicks == 2

\* Runs of the task in the specification of the two task definitions.
MaxTaskTicks == 2

\* Location samples delivered, and calls of startLocationTracking made, in
\* the specification of the restart.
MaxRestartTicks == 2
MaxRestarts == 1

\* Runs of the task in the specification of the handler.
MaxHandlerTicks == 3

\* Handler invocations that may be in flight at once.
Procs == {1, 2}

\* Program constants.
TRIGGER_RADIUS == 100
REARM_RADIUS == 200
CooldownMs == 10 * 60 * 1000

\* Granularity of the model's clock.
ClockStepMs == 5 * 60 * 1000
Cooldown == CooldownMs \div ClockStepMs

Ids == {"r1", "r2"}

-----------------------------------------------------------------------------
\* JavaScript values as they arrive in the decoded JSON.

JsNum(n) == [t |-> "number", n |-> n, numeric |-> TRUE]
\* a string holding the decimal numeral of n
JsNumStr(n) == [t |-> "string", n |-> n, numeric |-> TRUE]
\* a string that is no numeral
JsText == [t |-> "string", n |-> 0, numeric |-> FALSE]
JsNull == [t |-> "null", n |-> 0, numeric |-> FALSE]
JsUndefined == [t |-> "undefined", n |-> 0, numeric |-> FALSE]

\* IEEE numbers: a value or NaN.
Num(n) == [nan |-> FALSE, v |-> n]
NaN == [nan |-> TRUE, v |-> 0]

\* The numeric coercion the arithmetic operators apply to an operand.
ToNumber(x) ==
    CASE x.t = "number" -> Num(x.n)
      [] x.t = "null" -> Num(0)
      [] x.t = "undefined" -> NaN
      [] x.t = "string" -> IF x.numeric THEN Num(x.n) ELSE NaN

\* Comparisons with NaN are false.
LE(d, bound) == ~d.nan /\ d.v <= bound
GT(d, bound) == ~d.nan /\ d.v > bound

Abs(n) == IF n < 0 THEN -n ELSE n

calculateDistance(lat1, lon1, lat2, lon2) ==
    LET a1 == ToNumber(lat1)
        o1 == ToNumber(lon1)
        a2 == ToNumber(lat2)
        o2 == ToNumber(lon2)
    IN  IF a1.nan \/ o1.nan \/ a2.nan \/ o2.nan
        THEN NaN
        ELSE CASE o1.v = o2.v -> Num(Abs(a2.v - a1.v))
               [] a1.v = 0 /\ a2.v = 0 -> Num(Abs(o2.v - o1.v))

-----------------------------------------------------------------------------
\* calculateDistance in fixed-point arithmetic: a number is an integer count
\* of 10^-8, a coordinate is given in tenths of a degree and the result is in
\* whole metres.  Products are formed limb by limb to stay within 32 bits.

Limb == 10000
One == Limb * Limb

\* Math.PI, and Math.PI / 180 for a tenth of a degree.
PI == 314159265
RadPerTenth == 174533

\* Earth's radius in kilometres.
R == 6371

Sign(n) == IF n < 0 THEN -1 ELSE 1

\* x / 2
Half(x) == Sign(x) * (Abs(x) \div 2)

\* a * b for a, b >= 0.
MulAbs(a, b) ==
    LET ah == a \div Limb
        al == a % Limb
        bh == b \div Limb
        bl == b % Limb
    IN  ah * bh + ((ah * bl + al * bh + ((al * bl) \div Limb)) \div Limb)

Mul(a, b) == Sign(a) * Sign(b) * MulAbs(Abs(a), Abs(b))

\* The alternating power series t - t*x2/(k(k+1)) + ..., n terms.
RECURSIVE Series(_, _, _, _, _, _)
Series(t, x2, k, n, sign, acc) ==
    IF n = 0 THEN acc
    ELSE Series(MulAbs(t, x2) \div (k * (k + 1)), x2, k + 2, n - 1,
                -sign, acc + sign * t)

SeriesTerms == 9

\* Math.sin and Math.cos for arguments between -PI/2 and PI/2; the sum of
\* the series is kept within the range of the function.
Clamp(y) == IF y > One THEN One ELSE IF y < -One THEN -One ELSE y
SinAbs(x) == Clamp(Series(x, MulAbs(x, x), 2, SeriesTerms, 1, 0))
Sin(x) == Sign(x) * SinAbs(Abs(x))
Cos(x) == Clamp(Series(One, MulAbs(Abs(x), Abs(x)), 1, SeriesTerms, 1, 0))

\* Math.sqrt for 0 <= x <= 1: the least r with r * r >= x.
RECURSIVE SqrtSearch(_, _, _)
SqrtSearch(lo, hi, x) ==
    IF lo = hi THEN lo
    ELSE LET mid == lo + ((hi - lo + 1) \div 2)
         IN  IF MulAbs(mid, mid) < x
             THEN SqrtSearch(mid, hi, x) ELSE SqrtSearch(lo, mid - 1, x)

Sqrt(x) == IF x = 0 THEN 0 ELSE SqrtSearch(0, One, x) + 1

\* Math.atan2(y, x) for y, x >= 0: the largest angle th in 0..PI/2 with
\* x * sin(th) <= y * cos(th).
RECURSIVE AtanSearch(_, _, _, _)
AtanSearch(lo, hi, y, x) ==
    IF lo = hi THEN lo
    ELSE LET mid == lo + ((hi - lo + 1) \div 2)
         IN  IF MulAbs(x, SinAbs(mid)) <= MulAbs(y, Cos(mid))
             THEN AtanSearch(mid, hi, y, x) ELSE AtanSearch(lo, mid - 1, y, x)

Atan2(y, x) == AtanSearch(0, PI \div 2, y, x)

\* As HaversineA, without the cosines of the latitudes.
HaversineANoCos(sinLat, cosLat1, cosLat2, sinLon) ==
    Mul(sinLat, sinLat) + Mul(sinLon, sinLon)

\* a = sin(dLat/2)^2 + cos(lat1) * cos(lat2) * sin(dLon/2)^2
HaversineA(sinLat, cosLat1, cosLat2, sinLon) ==
    Mul(sinLat, sinLat) + Mul(Mul(Mul(cosLat1, cosLat2), sinLon), sinLon)

\* R * c * 1000, in whole metres.
Metres(c) ==
    LET kLimb == 10 * Limb
    IN  (c \div kLimb) * R + (((c % kLimb) * R) \div kLimb)

Haversine(lat1, lon1, lat2, lon2) ==
    LET dLat == (lat2 - lat1) * RadPerTenth
        dLon == (lon2 - lon1) * RadPerTenth
        a == HaversineA(Sin(Half(dLat)), Cos(lat1 * RadPerTenth),
                        Cos(lat2 * RadPerTenth), Sin(Half(dLon)))
        c == 2 * Atan2(Sqrt(a), Sqrt(One - a))
        distance == Metres(c)
    IN  \* Math.sqrt(1 - a) is NaN for a > 1, and so is the distance
        IF a > One THEN NaN ELSE Num(distance)

\* The points the distance is computed for, in tenths of a degree.
Latitudes == {0, 1, 300, 600, 900}
Longitudes == {0, 1, 900, 1800}

NoDistance ==
    [lat1 |-> 0, lon1 |-> 0, lat2 |-> 0, lon2 |-> 0,
     computed |-> FALSE, distance |-> Num(0)]

-----------------------------------------------------------------------------
\* Reminder records.

Loc(lat, lon) == [kind |-> "object", latitude |-> lat, longitude |-> lon]
LocUndefined ==
    [kind |-> "undefined", latitude |-> JsUndefined, longitude |-> JsUndefined]
LocNull ==
    [kind |-> "null", latitude |-> JsUndefined, longitude |-> JsUndefined]

LocationReminder(id, isActive, location) ==
    [id |-> id, isActive |-> isActive, location |-> location]

\* The well-formed reminders: r1 at latitude 0, r2 300 m north of it.
R1 == LocationReminder("r1", TRUE, Loc(JsNum(0), JsNum(0)))
R2 == LocationReminder("r2", TRUE, Loc(JsNum(300), JsNum(0)))

\* The lists the server may hold.
ServerLists ==
    { <<R1>>,
      <<R1, R2>>,
      <<LocationReminder("r1", FALSE, Loc(JsNum(0), JsNum(0)))>>,
      <<LocationReminder("r1", TRUE, LocUndefined)>>,
      <<LocationReminder("r1", TRUE, LocNull), R2>>,
      <<LocationReminder("r1", TRUE, Loc(JsNull, JsNum(0)))>>,
      <<LocationReminder("r1", TRUE, Loc(JsNumStr(0), JsNum(0)))>>,
      <<LocationReminder("r1", TRUE, Loc(JsText, JsNum(0)))>>,
      <<LocationReminder("r1", TRUE, Loc(JsUndefined, JsNum(0)))>>,
      <<LocationReminder("r1", TRUE, Loc(JsNum(0), JsUndefined))>> }

\* Latitudes of the location samples.
Positions == {50, 120, 180, 250}

\* The filter callback of activeReminders.
FilterKeeps(reminder) ==
    /\ reminder.isActive
    /\ reminder.location.kind # "undefined"
    /\ reminder.location.latitude.t # "undefined"
    /\ reminder.location.longitude.t # "undefined"

\* Reading .latitude of null throws a TypeError.
FilterThrows(reminders) ==
    \E i \in 1..Len(reminders) :
        reminders[i].isActive /\ reminders[i].location.kind = "null"

\* As activeReminders, without the filter.
activeRemindersAll(reminders) == reminders

activeReminders(reminders) == SelectSeq(reminders, FilterKeeps)

-----------------------------------------------------------------------------
\* Observations.  delivered counts, per id, the notifications the OS accepted;
\* removed counts, per id, the steps that took the id out of the triggered
\* set; history lists, in order, the handler invocations that ended (by the
\* exit they took) and the calls that returned (by their console line).  Each
\* is kept in the specifications that read it and switched off in the others.

NoCount == [r \in Ids |-> 0]
NotCounted == [r \in Ids |-> -1]
Counted(f, r) == IF f[r] < 0 THEN f ELSE [f EXCEPT ![r] = @ + 1]

Unrecorded == <<"off">>
Logged(what) == IF history = Unrecorded THEN history ELSE Append(history, what)

\* An id that is in the triggered set before the step and not after it.
CountRemovals ==
    removed' = [r \in Ids |->
                   IF /\ removed[r] >= 0
                      /\ r \in triggeredReminders
                      /\ r \notin triggeredReminders'
                   THEN removed[r] + 1 ELSE removed[r]]

-----------------------------------------------------------------------------
\* Events recorded per reminder id: a tick's loop computed the distance d for
\* it, or one of its cooldown timers ran.

TickEv(d) == [k |-> "tick", d |-> d]
ExpireEv == [k |-> "expire", d |-> Num(0)]

\* A handler invocation: where it stands, the sample's latitude, the decoded
\* response and the loop index.
IdleTick == [pc |-> "idle", pos |-> 0, list |-> <<>>, i |-> 0]
IdleUi == [pc |-> "idle"]

NoTickInFlight == \A p \in Procs : tick[p].pc = "idle"

\* As FetchExit, with no catch block around the fetch.
FetchExitNoCatch(outcome) ==
    CASE outcome = "ok" -> "json"
      [] outcome = "notok" -> "return"
      [] outcome = "throws" -> "uncaught"

\* How checkNearbyReminders goes on when fetch settles: on to response.json(),
\* or it returns (the early return of a response that is not ok, the catch
\* block).  "uncaught" is an exception that leaves the function.
FetchExit(outcome) ==
    CASE outcome = "ok" -> "json"
      [] outcome = "notok" -> "return"
      [] outcome = "throws" -> "return"

\* As ShouldTrigger, without the test of the triggered set.
ShouldTriggerNoMemberTest(distance, id, trig) == LE(distance, TRIGGER_RADIUS)

\* As ShouldTrigger, with < for <=.
ShouldTriggerStrict(distance, id, trig) ==
    LE(distance, TRIGGER_RADIUS - 1) /\ id \notin trig

\* The trigger condition: within 100 m and not already triggered.
ShouldTrigger(distance, id, trig) ==
    LE(distance, TRIGGER_RADIUS) /\ id \notin trig

\* As ShouldRearm, never re-arming.
ShouldRearmNever(distance) == FALSE

\* As ShouldRearm, with the trigger radius taken for the re-arm radius.
ShouldRearmAtTrigger(distance) == GT(distance, TRIGGER_RADIUS)

\* The re-arm condition: the user moved away, beyond 200 m.
ShouldRearm(distance) == GT(distance, REARM_RADIUS)

\* The for loop of checkNearbyReminders from index i on, up to the next
\* await (the call of sendLocationNotification) or the end of the list.
RECURSIVE RunLoop(_, _, _, _)
RunLoop(list, i, pos, L) ==
    IF i > Len(list)
    THEN [L EXCEPT !.i = i, !.await = FALSE]
    ELSE LET reminder == list[i]
             distance == calculateDistance(JsNum(pos), JsNum(0),
                             reminder.location.latitude,
                             reminder.location.longitude)
             L1 == [L EXCEPT !.ev[reminder.id] = Append(@, TickEv(distance))]
         IN  IF ShouldTrigger(distance, reminder.id, L.trig)
             THEN [L1 EXCEPT !.i = i, !.await = TRUE,
                             !.sent[reminder.id] = @ + 1]
             ELSE RunLoop(list, i + 1, pos,
                     [L1 EXCEPT !.trig = IF ShouldRearm(distance)
                                         THEN @ \ {reminder.id} ELSE @])

LoopState(trig) ==
    [i |-> 0, await |-> FALSE, trig |-> trig, ev |-> ev, sent |-> sent]

\* The state a run of the loop that ended in L leaves.
Resume(p, L) ==
    /\ tick' = [tick EXCEPT ![p] =
                   IF L.await THEN [@ EXCEPT !.pc = "notify", !.i = L.i]
                   ELSE IdleTick]
    /\ triggeredReminders' = L.trig
    /\ ev' = L.ev
    /\ sent' = L.sent
    /\ history' = IF L.await THEN history ELSE Logged(<<"task", "done">>)
    /\ CountRemovals

-----------------------------------------------------------------------------
\* The record of the last NotificationService call that returned: the
\* operation, the value it returned ("throws" for an exception that reaches
\* the caller), the console line of the exit it took, and for
\* startLocationTracking the permission statuses it was given; `before` is
\* the operation and console line of the call that returned before it.  The
\* record is kept in the specification of the API (SpecApi) and switched off
\* in the others.

NotAsked ==
    [notification |-> "notasked", foreground |-> "notasked",
     background |-> "notasked"]
Granted ==
    [notification |-> "granted", foreground |-> "granted",
     background |-> "granted"]

NoCall ==
    [op |-> "none", value |-> "none", log |-> "none", perms |-> NotAsked,
     before |-> <<"none", "none">>]
Unobserved == [NoCall EXCEPT !.op = "off"]

Returned(op, value, log, perms) ==
    IF ret.op = "off" THEN ret
    ELSE [op |-> op, value |-> value, log |-> log, perms |-> perms,
          before |-> <<ret.op, ret.log>>]

-----------------------------------------------------------------------------
\* A call returns: its record and its line in the history.
CallReturns(op, value, log, perms) ==
    /\ ret' = Returned(op, value, log, perms)
    /\ history' = Logged(<<op, log>>)

CallGoesOn ==
    /\ ret' = ret
    /\ history' = history

-----------------------------------------------------------------------------
Init ==
    /\ server \in ServerLists
    /\ registered \in BOOLEAN
    /\ triggeredReminders = {}
    /\ timers = EmptyBag
    /\ tick = [p \in Procs |-> IdleTick]
    /\ ui = IdleUi
    /\ sent = [r \in Ids |-> 0]
    /\ ev = [r \in Ids |-> <<>>]
    /\ nTicks = 0
    /\ stopRan = FALSE
    /\ uncaught = FALSE
    /\ ret = Unobserved
    /\ calc = NoDistance
    /\ executor = "notificationService"
    /\ delivered = NotCounted
    /\ history = Unrecorded
    /\ removed = NotCounted

\* What the task is handed with no location sample in it: the platform's
\* error, no data, or an empty list of locations.
Payloads == {"error", "nodata", "nolocation"}

\* As HandlerEntry, reading currentLocation.coords without the test of
\* currentLocation.
HandlerEntryNoGuard(payload) ==
    CASE payload = "error" -> "return"
      [] payload = "nodata" -> "return"
      [] payload = "nolocation" -> "uncaught"
      [] payload = "sample" -> "fetch"

\* The task handler up to its await: if (error) return; if (data) and
\* if (currentLocation) guard the call of checkNearbyReminders.
HandlerEntry(payload) ==
    CASE payload = "error" -> "return"
      [] payload = "nodata" -> "return"
      [] payload = "nolocation" -> "return"
      [] payload = "sample" -> "fetch"

\* The OS runs the task with no sample to look at: the handler returns.
TaskHandlerSkips ==
    /\ registered
    /\ executor = "notificationService"
    /\ nTicks < MaxTicks
    /\ \E payload \in Payloads :
           /\ uncaught' = (uncaught \/ HandlerEntry(payload) = "uncaught")
           /\ history' = Logged(<<"task", payload>>)
    /\ nTicks' = nTicks + 1
    /\ UNCHANGED <<server, calc, ret, executor, delivered, removed,
                   registered, triggeredReminders, timers, tick, ui,
                   sent, ev, stopRan>>

\* The OS delivers a location sample to the task: the handler reads
\* locations[0] and checkNearbyReminders calls fetch.
TaskHandler(p) ==
    /\ registered
    /\ executor = "notificationService"
    /\ HandlerEntry("sample") = "fetch"
    /\ nTicks < MaxTicks
    /\ tick[p].pc = "idle"
    /\ \A q \in Procs : q < p => tick[q].pc # "idle"
    /\ \E pos \in Positions :
           tick' = [tick EXCEPT ![p] = [IdleTick EXCEPT !.pc = "fetch", !.pos = pos]]
    /\ nTicks' = nTicks + 1
    /\ UNCHANGED <<server, calc, ret, executor, delivered, history, removed,
                   registered, triggeredReminders, timers, ui,
                   sent, ev, stopRan, uncaught>>

\* As FetchedList, answering from a copy of the list <<R1, R2>> made earlier.
FetchedListCached(srv) == <<R1, R2>>

\* What an ok response of GET /api/reminders carries: the server's list as
\* it is; checkNearbyReminders keeps no copy between calls.
FetchedList(srv) == srv

\* fetch settles: it rejects, or resolves with a response that is ok or not.
FetchReturn(p) ==
    /\ tick[p].pc = "fetch"
    /\ \E outcome \in {"ok", "notok", "throws"} :
           LET exit == FetchExit(outcome)
           IN  /\ tick' = [tick EXCEPT ![p] =
                              IF exit = "json"
                              THEN [@ EXCEPT !.pc = "json", !.list = FetchedList(server)]
                              ELSE IdleTick]
               /\ uncaught' = (uncaught \/ exit = "uncaught")
               /\ history' = IF exit = "json" THEN history
                              ELSE Logged(<<"task", outcome>>)
    /\ UNCHANGED <<server, calc, ret, executor, delivered, removed,
                   registered, triggeredReminders, timers, ui,
                   sent, ev, nTicks, stopRan>>

\* response.json() settles; on success the list is filtered and the loop
\* runs up to its first await.
JsonReturn(p) ==
    /\ tick[p].pc = "json"
    /\ \E parsed \in BOOLEAN :
           IF ~parsed \/ FilterThrows(tick[p].list)
           THEN /\ tick' = [tick EXCEPT ![p] = IdleTick]
                /\ history' = Logged(<<"task", IF parsed THEN "filter" ELSE "json">>)
                /\ UNCHANGED <<triggeredReminders, ev, sent, removed>>
           ELSE Resume(p, RunLoop(activeReminders(tick[p].list), 1, tick[p].pos,
                                  LoopState(triggeredReminders)))
    /\ UNCHANGED <<server, calc, ret, executor, delivered,
                   registered, timers, ui, nTicks, stopRan, uncaught>>

\* As AfterNotify, without the add.
AfterNotifyNoAdd(trig, id, distance) ==
    IF ShouldRearm(distance) THEN trig \ {id} ELSE trig

\* The lines after `await sendLocationNotification(reminder)`: the id is
\* added and the cooldown timer is set; then the re-arm test.
AfterNotify(trig, id, distance) ==
    LET added == trig \cup {id}
    IN  IF ShouldRearm(distance) THEN added \ {id} ELSE added

\* As CooldownTimer, setting no timer.
CooldownTimerNone(id) == EmptyBag

\* setTimeout(() => triggeredReminders.delete(reminder.id), 10 * 60 * 1000)
CooldownTimer(id) == SetToBag({[id |-> id, rem |-> Cooldown]})

\* As sendLocationNotification, with no catch block.
sendLocationNotificationNoCatch(scheduled) ==
    IF scheduled THEN "returns" ELSE "throws"

\* sendLocationNotification: scheduleNotificationAsync inside try/catch; it
\* returns whether the scheduling resolved or was rejected.
sendLocationNotification(scheduled) == "returns"

\* scheduleNotificationAsync settles, sendLocationNotification returns and
\* the loop goes on: the id is added and its timer set.  An exception out of
\* sendLocationNotification would end checkNearbyReminders in its catch block.
NotifyReturn(p) ==
    /\ tick[p].pc = "notify"
    /\ \E scheduled \in BOOLEAN :
           LET list == activeReminders(tick[p].list)
               reminder == list[tick[p].i]
               distance == calculateDistance(JsNum(tick[p].pos), JsNum(0),
                               reminder.location.latitude,
                               reminder.location.longitude)
               trig == AfterNotify(triggeredReminders, reminder.id, distance)
           IN  IF sendLocationNotification(scheduled) = "throws"
               THEN /\ tick' = [tick EXCEPT ![p] = IdleTick]
                    /\ history' = Logged(<<"task", "notify">>)
                    /\ UNCHANGED <<triggeredReminders, timers, ev, sent,
                                   delivered, removed>>
               ELSE /\ timers' = timers (+) CooldownTimer(reminder.id)
                    /\ delivered' = IF scheduled
                                    THEN Counted(delivered, reminder.id)
                                    ELSE delivered
                    /\ Resume(p, RunLoop(list, tick[p].i + 1, tick[p].pos,
                                         LoopState(trig)))
    /\ UNCHANGED <<server, calc, ret, executor,
                   registered, ui, nTicks, stopRan, uncaught>>

\* As TimerCallback, deleting nothing.
TimerCallbackKeeps(trig, id) == trig

\* The setTimeout callback: triggeredReminders.delete(reminder.id).
TimerCallback(trig, id) == trig \ {id}

\* A cooldown timer runs its callback.
TimerFire ==
    \E t \in BagToSet(timers) :
        /\ t.rem = 0
        /\ timers' = timers (-) SetToBag({t})
        /\ triggeredReminders' = TimerCallback(triggeredReminders, t.id)
        /\ ev' = [ev EXCEPT ![t.id] = Append(@, ExpireEv)]
        /\ CountRemovals
        /\ UNCHANGED <<server, calc, ret, executor, delivered, history,
                   registered, tick, ui, sent, nTicks,
                       stopRan, uncaught>>

AdvanceTimers(B) ==
    LET down(t) == [t EXCEPT !.rem = IF @ > 0 THEN @ - 1 ELSE 0]
        up(t) == [t EXCEPT !.rem = @ + 1]
    IN  [t \in {down(s) : s \in BagToSet(B)} |->
            CopiesIn(up(t), B) + (IF t.rem = 0 THEN CopiesIn(t, B) ELSE 0)]

\* One clock step passes.
Advance ==
    /\ \E t \in BagToSet(timers) : t.rem > 0
    /\ timers' = AdvanceTimers(timers)
    /\ UNCHANGED <<server, calc, ret, executor, delivered, history, removed,
                   registered, triggeredReminders, tick, ui,
                   sent, ev, nTicks, stopRan, uncaught>>

-----------------------------------------------------------------------------
\* src/unnamed/part_006: a second TaskManager.defineTask on the same task
\* name, LOCATION_TASK_NAME = "background-location-task".  The definition
\* that runs last is the one the task name is bound to (executor).

Executors == {"notificationService", "part_006"}

\* if (distance < 50)
ARRIVAL_RADIUS == 50

\* The lists part_006's currentReminders may hold, as latitudes.
SavedLists == {<<>>, <<300>>, <<300, 40>>}

\* geolib's getDistance, in metres, for two points on one meridian.
getDistance(lat1, lat2) == Abs(lat2 - lat1)

\* The loop of part_006's handler finds a saved reminder within 50 m.
Arrived(pos, currentReminders) ==
    \E i \in 1..Len(currentReminders) :
        getDistance(pos, currentReminders[i]) < ARRIVAL_RADIUS

\* part_006's handler up to its first await: it returns on error, reads
\* locations out of data (a TypeError when there is no data), returns when
\* there is no location or no saved reminder, and schedules a notification
\* for the first saved reminder within 50 m.
ArrivalEntry(payload, pos, currentReminders) ==
    CASE payload = "error" -> "return"
      [] payload = "nodata" -> "uncaught"
      [] payload = "nolocation" -> "return"
      [] payload = "sample" ->
             IF Arrived(pos, currentReminders) THEN "arrive_notify"
             ELSE "return"

ArrivalHandler(p) ==
    /\ registered
    /\ executor = "part_006"
    /\ nTicks < MaxTicks
    /\ tick[p].pc = "idle"
    /\ \A q \in Procs : q < p => tick[q].pc # "idle"
    /\ \E payload \in Payloads \cup {"sample"}, pos \in Positions,
          currentReminders \in SavedLists :
           LET entry == ArrivalEntry(payload, pos, currentReminders)
           IN  /\ tick' = [tick EXCEPT ![p] =
                              IF entry = "arrive_notify"
                              THEN [IdleTick EXCEPT !.pc = entry, !.pos = pos]
                              ELSE IdleTick]
               /\ uncaught' = (uncaught \/ entry = "uncaught")
    /\ nTicks' = nTicks + 1
    /\ UNCHANGED <<server, calc, ret, executor, delivered, history, removed,
                   registered, triggeredReminders, timers, ui, sent, ev,
                   stopRan>>

\* scheduleNotificationAsync settles: the handler goes on to
\* stopLocationUpdatesAsync, or the rejection leaves the handler.
ArrivalNotifyReturn(p) ==
    /\ tick[p].pc = "arrive_notify"
    /\ \E scheduled \in BOOLEAN :
           /\ tick' = [tick EXCEPT ![p] =
                          IF scheduled THEN [@ EXCEPT !.pc = "arrive_unreg"]
                          ELSE IdleTick]
           /\ uncaught' = (uncaught \/ ~scheduled)
    /\ UNCHANGED <<server, calc, ret, executor, delivered, history, removed,
                   registered, triggeredReminders, timers, ui, sent, ev,
                   nTicks, stopRan>>

\* stopLocationUpdatesAsync(LOCATION_TASK_NAME) settles, and the handler
\* breaks out of its loop.
ArrivalUnregReturn(p) ==
    /\ tick[p].pc = "arrive_unreg"
    /\ \E ok \in BOOLEAN :
           /\ registered' = IF ok THEN FALSE ELSE registered
           /\ uncaught' = (uncaught \/ ~ok)
    /\ tick' = [tick EXCEPT ![p] = IdleTick]
    /\ UNCHANGED <<server, calc, ret, executor, delivered, history, removed,
                   triggeredReminders, timers, ui, sent, ev, nTicks, stopRan>>

-----------------------------------------------------------------------------
\* NotificationService.stopLocationTracking

StopCall ==
    /\ ui.pc = "idle"
    /\ ui' = [pc |-> "stop_query"]
    /\ UNCHANGED <<server, calc, ret, executor, delivered, history, removed,
                   registered, triggeredReminders, timers, tick,
                   sent, ev, nTicks, stopRan, uncaught>>

\* What stopLocationTracking leaves when it returns.
StopReturn(cleared, log) ==
    /\ ui' = IdleUi
    /\ triggeredReminders' = IF cleared THEN {} ELSE triggeredReminders
    /\ stopRan' = TRUE
    /\ CountRemovals
    /\ CallReturns("stop", "void", log, NotAsked)

\* As StopAfterQuery, unregistering without looking at the answer.
StopAfterQueryAlways(isTaskRegistered) == "stop_unreg"

\* if (isTaskRegistered) await stopLocationUpdatesAsync, else on to the clear.
StopAfterQuery(isTaskRegistered) ==
    IF isTaskRegistered THEN "stop_unreg" ELSE "clear"

\* isTaskRegisteredAsync settles.
StopQueryReturn ==
    /\ ui.pc = "stop_query"
    /\ \E outcome \in {"value", "throws"} :
           IF outcome = "throws"
           THEN StopReturn(FALSE, "error")
           ELSE IF StopAfterQuery(registered) = "stop_unreg"
                THEN /\ ui' = [pc |-> "stop_unreg"]
                     /\ UNCHANGED <<triggeredReminders, stopRan, ret,
                                    history, removed>>
                ELSE StopReturn(TRUE, "notactive")
    /\ UNCHANGED <<server, calc, executor, delivered,
                   registered, timers, tick, sent, ev, nTicks, uncaught>>

\* stopLocationUpdatesAsync settles.
StopUnregReturn ==
    /\ ui.pc = "stop_unreg"
    /\ \E ok \in BOOLEAN :
           /\ registered' = IF ok THEN FALSE ELSE registered
           /\ StopReturn(ok, IF ok THEN "stopped" ELSE "error")
    /\ UNCHANGED <<server, calc, executor, delivered,
                   timers, tick, sent, ev, nTicks, uncaught>>

-----------------------------------------------------------------------------
\* NotificationService.startLocationTracking

\* What a permission request may end in: a status, or an exception.
Statuses == {"granted", "denied", "throws"}

\* requestPermissions: true when the final status is granted; the catch
\* block returns false.
requestPermissions(finalStatus) == finalStatus = "granted"

\* requestLocationPermissions: the background permission is requested when
\* the foreground one is granted; true when both are.
requestLocationPermissions(foregroundStatus, backgroundStatus) ==
    foregroundStatus = "granted" /\ backgroundStatus = "granted"

StartCall ==
    /\ ui.pc = "idle"
    /\ ui' = [pc |-> "start_perm"]
    /\ UNCHANGED <<server, calc, ret, executor, delivered, history, removed,
                   registered, triggeredReminders, timers, tick,
                   sent, ev, nTicks, stopRan, uncaught>>

\* As StartResult, with no catch block.
StartResultNoCatch(failed) == IF failed THEN "throws" ELSE "true"

\* The value of startLocationTracking: true at the end of the try block,
\* false from the catch block.
StartResult(failed) == IF failed THEN "false" ELSE "true"

\* requestPermissions and requestLocationPermissions have returned.
StartPermsReturn ==
    /\ ui.pc = "start_perm"
    /\ \E n \in Statuses, f \in Statuses, b \in Statuses :
           LET perms == [notification |-> n, foreground |-> f,
                         background |-> IF f = "granted" THEN b ELSE "notasked"]
               notificationPermission == requestPermissions(n)
               locationPermission ==
                   requestLocationPermissions(perms.foreground, perms.background)
           IN  IF ~notificationPermission \/ ~locationPermission
               THEN /\ ui' = IdleUi
                    /\ CallReturns("start", "false", "denied", perms)
               ELSE /\ ui' = [pc |-> "start_query"]
                    /\ CallGoesOn
    /\ UNCHANGED <<server, calc, executor, delivered, removed,
                   registered, triggeredReminders, timers, tick,
                   sent, ev, nTicks, stopRan, uncaught>>

\* As StartAfterQuery, registering without stopping the existing task.
StartAfterQueryNoStop(isTaskRegistered) == "start_reg"

\* if (isTaskRegistered) await stopLocationUpdatesAsync, then on to
\* startLocationUpdatesAsync.
StartAfterQuery(isTaskRegistered) ==
    IF isTaskRegistered THEN "start_unreg" ELSE "start_reg"

\* isTaskRegisteredAsync settles.
StartQueryReturn ==
    /\ ui.pc = "start_query"
    /\ \E outcome \in {"value", "throws"} :
           IF outcome = "throws"
           THEN /\ ui' = IdleUi
                /\ CallReturns("start", StartResult(TRUE), "error", Granted)
           ELSE /\ ui' = [pc |-> StartAfterQuery(registered)]
                /\ CallGoesOn
    /\ UNCHANGED <<server, calc, executor, delivered, removed,
                   registered, triggeredReminders, timers, tick,
                   sent, ev, nTicks, stopRan, uncaught>>

\* stopLocationUpdatesAsync of the existing task settles.
StartUnregReturn ==
    /\ ui.pc = "start_unreg"
    /\ \E ok \in BOOLEAN :
           /\ registered' = IF ok THEN FALSE ELSE registered
           /\ IF ok
              THEN /\ ui' = [pc |-> "start_reg"]
                   /\ CallGoesOn
              ELSE /\ ui' = IdleUi
                   /\ CallReturns("start", StartResult(TRUE), "error", Granted)
    /\ UNCHANGED <<server, calc, executor, delivered, removed,
                   triggeredReminders, timers, tick,
                   sent, ev, nTicks, stopRan, uncaught>>

\* As AfterStart, with the set cleared for the new monitoring session.
AfterStartCleared(trig) == {}

\* The triggered set when startLocationTracking returns: no line of it
\* reads or writes triggeredReminders.
AfterStart(trig) == trig

\* startLocationUpdatesAsync settles.
StartRegReturn ==
    /\ ui.pc = "start_reg"
    /\ \E ok \in BOOLEAN :
           /\ registered' = IF ok THEN TRUE ELSE registered
           /\ CallReturns("start", StartResult(~ok),
                              IF ok THEN "started" ELSE "error", Granted)
    /\ ui' = IdleUi
    /\ triggeredReminders' = AfterStart(triggeredReminders)
    /\ UNCHANGED <<server, calc, executor, delivered, removed,
                   timers, tick,
                   sent, ev, nTicks, stopRan, uncaught>>

-----------------------------------------------------------------------------
\* NotificationService.getTrackingStatus

StatusCall ==
    /\ ui.pc = "idle"
    /\ ui' = [pc |-> "status"]
    /\ UNCHANGED <<server, calc, ret, executor, delivered, history, removed,
                   registered, triggeredReminders, timers, tick,
                   sent, ev, nTicks, stopRan, uncaught>>

\* As StatusResult, with the catch block answering true.
StatusResultOnError(outcome, isTaskRegistered) ==
    IF outcome = "throws" THEN "true"
    ELSE IF isTaskRegistered THEN "true" ELSE "false"

\* return await isTaskRegisteredAsync(...); the catch block returns false.
StatusResult(outcome, isTaskRegistered) ==
    IF outcome = "throws" THEN "false"
    ELSE IF isTaskRegistered THEN "true" ELSE "false"

\* isTaskRegisteredAsync settles.
StatusReturn ==
    /\ ui.pc = "status"
    /\ \E outcome \in {"value", "throws"} :
           CallReturns("status", StatusResult(outcome, registered),
                           IF outcome = "throws" THEN "error" ELSE "none",
                           NotAsked)
    /\ ui' = IdleUi
    /\ UNCHANGED <<server, calc, executor, delivered, removed,
                   registered, triggeredReminders, timers, tick,
                   sent, ev, nTicks, stopRan, uncaught>>

-----------------------------------------------------------------------------
\* NotificationService.sendTestNotification

\* scheduleNotificationAsync is called with the test content.
TestCall ==
    /\ ui.pc = "idle"
    /\ ui' = [pc |-> "test"]
    /\ UNCHANGED <<server, calc, ret, executor, delivered, history, removed,
                   registered, triggeredReminders, timers, tick,
                   sent, ev, nTicks, stopRan, uncaught>>

\* As TestResult, with no catch block.
TestResultNoCatch(scheduled) == IF scheduled THEN "void" ELSE "throws"

\* sendTestNotification returns nothing, from the try or the catch block.
TestResult(scheduled) == "void"

\* scheduleNotificationAsync settles.
TestReturn ==
    /\ ui.pc = "test"
    /\ \E scheduled \in BOOLEAN :
           CallReturns("test", TestResult(scheduled),
                           IF scheduled THEN "sent" ELSE "error", NotAsked)
    /\ ui' = IdleUi
    /\ UNCHANGED <<server, calc, executor, delivered, removed,
                   registered, triggeredReminders, timers, tick,
                   sent, ev, nTicks, stopRan, uncaught>>

-----------------------------------------------------------------------------
UiNext ==
    \/ StopCall
    \/ StopQueryReturn
    \/ StopUnregReturn
    \/ StartCall
    \/ StartPermsReturn
    \/ StartQueryReturn
    \/ StartUnregReturn
    \/ StartRegReturn

Next ==
    \/ \E p \in Procs : TaskHandler(p)
    \/ \E p \in Procs : FetchReturn(p)
    \/ \E p \in Procs : JsonReturn(p)
    \/ \E p \in Procs : NotifyReturn(p)
    \/ TimerFire
    \/ Advance
    \/ UiNext

Spec == Init /\ [][Next]_vars

\* The platform delivers a sample only when the previous handler has finished.
NextSerial ==
    \/ \E p \in Procs : NoTickInFlight /\ TaskHandler(p)
    \/ \E p \in Procs : FetchReturn(p)
    \/ \E p \in Procs : JsonReturn(p)
    \/ \E p \in Procs : NotifyReturn(p)
    \/ TimerFire
    \/ Advance
    \/ UiNext

SpecSerial == Init /\ [][NextSerial]_vars

\* Reminders at the thresholds: r1 50 m south of the origin and r2 50 m north
\* of it, so that the samples are at 100, 170, 230, 300 m of r1 and at 0, 70,
\* 130, 200 m of r2.
InitThreshold ==
    /\ server = <<LocationReminder("r1", TRUE, Loc(JsNum(-50), JsNum(0))),
                  LocationReminder("r2", TRUE, Loc(JsNum(50), JsNum(0)))>>
    /\ registered \in BOOLEAN
    /\ triggeredReminders = {}
    /\ timers = EmptyBag
    /\ tick = [p \in Procs |-> IdleTick]
    /\ ui = IdleUi
    /\ sent = [r \in Ids |-> 0]
    /\ ev = [r \in Ids |-> <<>>]
    /\ nTicks = 0
    /\ stopRan = FALSE
    /\ uncaught = FALSE
    /\ ret = Unobserved
    /\ calc = NoDistance
    /\ executor = "notificationService"
    /\ delivered = NotCounted
    /\ history = Unrecorded
    /\ removed = NotCounted

NextThreshold ==
    \/ \E p \in Procs :
           NoTickInFlight /\ nTicks < MaxThresholdTicks /\ TaskHandler(p)
    \/ \E p \in Procs : FetchReturn(p)
    \/ \E p \in Procs : JsonReturn(p)
    \/ \E p \in Procs : NotifyReturn(p)
    \/ TimerFire
    \/ Advance
    \/ UiNext

SpecThreshold == InitThreshold /\ [][NextThreshold]_vars

\* calculateDistance on its own: two points are given and the distance
\* between them is computed.
InitDistance ==
    /\ server = <<R1>>
    /\ registered = FALSE
    /\ triggeredReminders = {}
    /\ timers = EmptyBag
    /\ tick = [p \in Procs |-> IdleTick]
    /\ ui = IdleUi
    /\ sent = [r \in Ids |-> 0]
    /\ ev = [r \in Ids |-> <<>>]
    /\ nTicks = 0
    /\ stopRan = FALSE
    /\ uncaught = FALSE
    /\ executor = "notificationService"
    /\ delivered = NotCounted
    /\ history = Unrecorded
    /\ removed = NotCounted
    /\ ret = Unobserved
    /\ \E lat1 \in Latitudes, lon1 \in Longitudes,
          lat2 \in Latitudes, lon2 \in Longitudes :
           calc = [lat1 |-> lat1, lon1 |-> lon1, lat2 |-> lat2, lon2 |-> lon2,
                   computed |-> FALSE, distance |-> Num(0)]

Compute ==
    /\ ~calc.computed
    /\ calc' = [calc EXCEPT
                   !.computed = TRUE,
                   !.distance = Haversine(calc.lat1, calc.lon1,
                                          calc.lat2, calc.lon2)]
    /\ UNCHANGED <<server, registered, triggeredReminders, timers, tick, ui,
                   sent, ev, nTicks, stopRan, uncaught, ret,
                   executor, delivered, history, removed>>

NextDistance == Compute

SpecDistance == InitDistance /\ [][NextDistance]_vars

\* The NotificationService API with its calls recorded: every operation of
\* the class the screens call, next to a task that has delivered at most
\* MaxApiTicks samples.
InitApi ==
    /\ server = <<R1>>
    /\ registered \in BOOLEAN
    /\ triggeredReminders = {}
    /\ timers = EmptyBag
    /\ tick = [p \in Procs |-> IdleTick]
    /\ ui = IdleUi
    /\ sent = [r \in Ids |-> 0]
    /\ ev = [r \in Ids |-> <<>>]
    /\ nTicks = 0
    /\ stopRan = FALSE
    /\ uncaught = FALSE
    /\ ret = NoCall
    /\ calc = NoDistance
    /\ executor = "notificationService"
    /\ delivered = NotCounted
    /\ history = Unrecorded
    /\ removed = NotCounted

ApiNext ==
    \/ UiNext
    \/ StatusCall
    \/ StatusReturn
    \/ TestCall
    \/ TestReturn

NextApi ==
    \/ \E p \in Procs : NoTickInFlight /\ nTicks < MaxApiTicks /\ TaskHandler(p)
    \/ \E p \in Procs : FetchReturn(p)
    \/ \E p \in Procs : JsonReturn(p)
    \/ \E p \in Procs : NotifyReturn(p)
    \/ TimerFire
    \/ Advance
    \/ ApiNext

SpecApi == InitApi /\ [][NextApi]_vars

\* One invocation at a time, with the removals from the triggered set
\* counted.
InitBounded ==
    /\ server = <<R1, R2>>
    /\ registered = TRUE
    /\ triggeredReminders = {}
    /\ timers = EmptyBag
    /\ tick = [p \in Procs |-> IdleTick]
    /\ ui = IdleUi
    /\ sent = [r \in Ids |-> 0]
    /\ ev = [r \in Ids |-> <<>>]
    /\ nTicks = 0
    /\ stopRan = FALSE
    /\ uncaught = FALSE
    /\ ret = Unobserved
    /\ calc = NoDistance
    /\ executor = "notificationService"
    /\ delivered = NotCounted
    /\ history = Unrecorded
    /\ removed = NoCount

SpecBounded == InitBounded /\ [][NextSerial]_vars

\* The cooldown timers: the task, stopLocationTracking, and an event loop
\* that lets time pass and runs the callback of a timer that is due.
InitCooldown ==
    /\ server = <<R1, R2>>
    /\ registered = TRUE
    /\ triggeredReminders = {}
    /\ timers = EmptyBag
    /\ tick = [p \in Procs |-> IdleTick]
    /\ ui = IdleUi
    /\ sent = [r \in Ids |-> 0]
    /\ ev = [r \in Ids |-> <<>>]
    /\ nTicks = 0
    /\ stopRan = FALSE
    /\ uncaught = FALSE
    /\ ret = Unobserved
    /\ calc = NoDistance
    /\ executor = "notificationService"
    /\ delivered = NotCounted
    /\ history = Unrecorded
    /\ removed = NotCounted

NextCooldown ==
    \/ \E p \in Procs : nTicks < MaxCooldownTicks /\ TaskHandler(p)
    \/ \E p \in Procs : FetchReturn(p)
    \/ \E p \in Procs : JsonReturn(p)
    \/ \E p \in Procs : NotifyReturn(p)
    \/ TimerFire
    \/ Advance
    \/ StopCall
    \/ StopQueryReturn
    \/ StopUnregReturn

SpecCooldown ==
    /\ InitCooldown
    /\ [][NextCooldown]_vars
    /\ WF_vars(Advance)
    /\ WF_vars(TimerFire)

\* Both task definitions of the repository: the task name is bound to the
\* one or to the other, and the task runs one invocation at a time.
InitTasks ==
    /\ server = <<R1>>
    /\ registered = TRUE
    /\ triggeredReminders = {}
    /\ timers = EmptyBag
    /\ tick = [p \in Procs |-> IdleTick]
    /\ ui = IdleUi
    /\ sent = [r \in Ids |-> 0]
    /\ ev = [r \in Ids |-> <<>>]
    /\ nTicks = 0
    /\ stopRan = FALSE
    /\ uncaught = FALSE
    /\ ret = Unobserved
    /\ calc = NoDistance
    /\ executor \in Executors
    /\ delivered = NotCounted
    /\ history = Unrecorded
    /\ removed = NotCounted

NextTasks ==
    \/ \E p \in Procs :
           NoTickInFlight /\ nTicks < MaxTaskTicks /\ TaskHandler(p)
    \/ \E p \in Procs :
           NoTickInFlight /\ nTicks < MaxTaskTicks /\ ArrivalHandler(p)
    \/ \E p \in Procs : FetchReturn(p)
    \/ \E p \in Procs : JsonReturn(p)
    \/ \E p \in Procs : NotifyReturn(p)
    \/ \E p \in Procs : ArrivalNotifyReturn(p)
    \/ \E p \in Procs : ArrivalUnregReturn(p)
    \/ TimerFire
    \/ Advance
    \/ UiNext

SpecTasks == InitTasks /\ [][NextTasks]_vars

\* Monitoring restarted while it runs: the task, one invocation at a time,
\* and calls of startLocationTracking, all recorded in order.
InitRestart ==
    /\ server = <<R1>>
    /\ registered = TRUE
    /\ triggeredReminders = {}
    /\ timers = EmptyBag
    /\ tick = [p \in Procs |-> IdleTick]
    /\ ui = IdleUi
    /\ sent = [r \in Ids |-> 0]
    /\ ev = [r \in Ids |-> <<>>]
    /\ nTicks = 0
    /\ stopRan = FALSE
    /\ uncaught = FALSE
    /\ ret = Unobserved
    /\ calc = NoDistance
    /\ executor = "notificationService"
    /\ delivered = NotCounted
    /\ history = <<>>
    /\ removed = NotCounted

\* The calls of startLocationTracking that have returned.
StartsReturned == {k \in 1..Len(history) : history[k][1] = "start"}

NextRestart ==
    \/ \E p \in Procs :
           NoTickInFlight /\ nTicks < MaxRestartTicks /\ TaskHandler(p)
    \/ \E p \in Procs : FetchReturn(p)
    \/ \E p \in Procs : JsonReturn(p)
    \/ \E p \in Procs : NotifyReturn(p)
    \/ TimerFire
    \/ Advance
    \/ Cardinality(StartsReturned) < MaxRestarts /\ StartCall
    \/ StartPermsReturn
    \/ StartQueryReturn
    \/ StartUnregReturn
    \/ StartRegReturn

SpecRestart == InitRestart /\ [][NextRestart]_vars

\* A reminder is deactivated or deleted on the server.
Deactivated(list, i) == [list EXCEPT ![i].isActive = FALSE]
Deleted(list, i) == SubSeq(list, 1, i - 1) \o SubSeq(list, i + 1, Len(list))

ServerEdit ==
    /\ \E i \in 1..Len(server) :
           \/ server[i].isActive /\ server' = Deactivated(server, i)
           \/ server' = Deleted(server, i)
    /\ UNCHANGED <<calc, ret, executor, delivered, history, removed,
                   registered, triggeredReminders, timers, tick, ui,
                   sent, ev, nTicks, stopRan, uncaught>>

\* The task, one run at a time, next to a server whose reminders are
\* deactivated and deleted while it runs.
InitServer ==
    /\ server = <<R1, R2>>
    /\ registered = TRUE
    /\ triggeredReminders = {}
    /\ timers = EmptyBag
    /\ tick = [p \in Procs |-> IdleTick]
    /\ ui = IdleUi
    /\ sent = [r \in Ids |-> 0]
    /\ ev = [r \in Ids |-> <<>>]
    /\ nTicks = 0
    /\ stopRan = FALSE
    /\ uncaught = FALSE
    /\ ret = Unobserved
    /\ calc = NoDistance
    /\ executor = "notificationService"
    /\ delivered = NotCounted
    /\ history = Unrecorded
    /\ removed = NotCounted

NextServer ==
    \/ \E p \in Procs :
           NoTickInFlight /\ nTicks < MaxServerTicks /\ TaskHandler(p)
    \/ \E p \in Procs : FetchReturn(p)
    \/ \E p \in Procs : JsonReturn(p)
    \/ \E p \in Procs : NotifyReturn(p)
    \/ TimerFire
    \/ Advance
    \/ ServerEdit

SpecServer == InitServer /\ [][NextServer]_vars

\* The task handler on its own: the task stays registered, each run of the
\* task ends before the next, and what each run did is recorded.
InitHandler ==
    /\ server \in ServerLists
    /\ registered = TRUE
    /\ triggeredReminders = {}
    /\ timers = EmptyBag
    /\ tick = [p \in Procs |-> IdleTick]
    /\ ui = IdleUi
    /\ sent = [r \in Ids |-> 0]
    /\ ev = [r \in Ids |-> <<>>]
    /\ nTicks = 0
    /\ stopRan = FALSE
    /\ uncaught = FALSE
    /\ ret = Unobserved
    /\ calc = NoDistance
    /\ executor = "notificationService"
    /\ delivered = NoCount
    /\ history = <<>>
    /\ removed = NotCounted

NextHandler ==
    \/ \E p \in Procs :
           NoTickInFlight /\ nTicks < MaxHandlerTicks /\ TaskHandler(p)
    \/ NoTickInFlight /\ nTicks < MaxHandlerTicks /\ TaskHandlerSkips
    \/ \E p \in Procs : FetchReturn(p)
    \/ \E p \in Procs : JsonReturn(p)
    \/ \E p \in Procs : NotifyReturn(p)
    \/ TimerFire
    \/ Advance

SpecHandler == InitHandler /\ [][NextHandler]_vars

-----------------------------------------------------------------------------
\* Reading the recorded events.

Near(e) == e.k = "tick" /\ LE(e.d, TRIGGER_RADIUS)
Far(e) == e.k = "tick" /\ GT(e.d, REARM_RADIUS)
DeadZone(e) == e.k = "tick" /\ GT(e.d, TRIGGER_RADIUS) /\ LE(e.d, REARM_RADIUS - 1)
IsTick(e) == e.k = "tick"

\* The distances the ticks computed for r, in order.
Ticks(r) == SelectSeq(ev[r], IsTick)

\* This step's loop computed distance event e for r.
Evaluates(r, e) == ev'[r] = Append(ev[r], e)

\* This step is a cooldown callback of r.
Expires(r) == ev'[r] = Append(ev[r], ExpireEv)

\* Clock steps since r was last added, counted up to Cooldown: every add sets
\* a timer of Cooldown steps, and the youngest of r's timers is the last add's.
SinceAdded(r) ==
    LET mine == {t \in BagToSet(timers) : t.id = r}
    IN  IF mine = {} THEN Cooldown
        ELSE Cooldown - (CHOOSE m \in {t.rem : t \in mine} :
                             \A t \in mine : t.rem <= m)

\* stopLocationTracking returns in this step.
StopReturns == ui.pc \in {"stop_query", "stop_unreg"} /\ ui'.pc = "idle"

T50 == TickEv(Num(50))
T120 == TickEv(Num(120))
T180 == TickEv(Num(180))
T250 == TickEv(Num(250))

-----------------------------------------------------------------------------
\* C1 -- Trigger idempotence.  With serialized ticks, when every tick so far
\* saw the reminder within the trigger radius (50 m), no cooldown timer of it
\* has run and stop has not run, exactly one notification has been dispatched
\* for it, however many such ticks there were.
C1_TriggerIdempotence ==
    \A r \in Ids :
        ( /\ ev[r] # <<>>
          /\ \A i \in 1..Len(ev[r]) : Near(ev[r][i])
          /\ ~stopRan )
        => sent[r] = 1

\* Three ticks in a row at 50 m, all returned, one notification.
C1_Witness ==
    /\ ev["r1"] = <<T50, T50, T50>>
    /\ NoTickInFlight
    /\ ~stopRan
    /\ sent["r1"] = 1

\* C2 -- Overlapping ticks.  As long as the reminder has not been removed
\* from the triggered set (no tick saw it beyond 200 m, none of its cooldown
\* timers has run, stop has not run), at most one notification has been
\* dispatched for it, also when handler invocations overlap.
C2_OncePerVisitOverlapping ==
    \A r \in Ids :
        ( /\ \A i \in 1..Len(ev[r]) : IsTick(ev[r][i]) /\ ~Far(ev[r][i])
          /\ ~stopRan )
        => sent[r] <= 1

\* C3 -- Re-arm after leaving.  With serialized ticks that saw the reminder
\* at 50 m, 250 m and 50 m, two notifications have been dispatched; after the
\* 250 m tick the id is out of the triggered set, whatever its timer says.
C3_RearmAfterLeaving ==
    \A r \in Ids :
        LET t == Ticks(r)
        IN  /\ (Len(t) = 3 /\ Near(t[1]) /\ Far(t[2]) /\ Near(t[3]))
                => sent[r] = 2
            /\ (Len(t) = 2 /\ Near(t[1]) /\ Far(t[2]))
                => (sent[r] = 1 /\ r \notin triggeredReminders)

\* 50 m, 250 m, 50 m with no clock step in between: the first trigger's
\* timer has its whole delay left when the second notification goes out.
C3_Witness ==
    /\ ev["r1"] = <<T50, T250, T50>>
    /\ sent["r1"] = 2
    /\ \E t \in BagToSet(timers) : t.id = "r1" /\ t.rem = Cooldown

\* C4 -- Cooldown window.  A cooldown callback never removes an id that was
\* added less than the cooldown (10 minutes) ago.
C4_CooldownWindow ==
    [][\A r \in Ids :
          (Expires(r) /\ r \in triggeredReminders)
          => SinceAdded(r) >= Cooldown]_vars

\* C5 -- Cooldown re-fire without leaving.  With serialized ticks that all
\* saw the reminder at 50 m, once its cooldown timer has run and a tick has
\* seen it since, two notifications have been dispatched (stop not run).
C5_CooldownRefire ==
    \A r \in Ids :
        ( /\ ~stopRan
          /\ \E j \in 2..(Len(ev[r]) - 1) :
                /\ ev[r][j] = ExpireEv
                /\ \A i \in 1..Len(ev[r]) : i # j => Near(ev[r][i]) )
        => sent[r] = 2

C5_Witness ==
    /\ ev["r1"] = <<T50, T50, ExpireEv, T50>>
    /\ ~stopRan
    /\ sent["r1"] = 2
    /\ "r1" \in triggeredReminders

\* C6 -- Dead-zone stability.  After a first trigger, ticks that see the
\* reminder strictly between 100 m and 200 m dispatch nothing more for it,
\* whether or not its cooldown timer runs in between, and such a tick neither
\* adds nor removes its id.
C6_DeadZoneStability ==
    /\ [](\A r \in Ids :
            ( /\ ev[r] # <<>>
              /\ Near(ev[r][1])
              /\ \A i \in 2..Len(ev[r]) : DeadZone(ev[r][i]) \/ ev[r][i] = ExpireEv )
            => sent[r] = 1)
    /\ [][\A r \in Ids : \A d \in {120, 180} :
             Evaluates(r, TickEv(Num(d)))
             => /\ sent'[r] = sent[r]
                /\ (r \in triggeredReminders') = (r \in triggeredReminders)]_vars

\* Trigger at 50 m, then 120 m, the timer runs, then 180 m: still one.
C6_Witness ==
    /\ ev["r1"] = <<T50, T120, ExpireEv, T180>>
    /\ sent["r1"] = 1
    /\ "r1" \notin triggeredReminders

\* C7 -- Ineligible reminders excluded.  A reminder on the server that is
\* inactive, has no location, or has a latitude or longitude that is not a
\* number is never notified and never in the triggered set.
Ineligible(reminder) ==
    \/ ~reminder.isActive
    \/ reminder.location.kind # "object"
    \/ reminder.location.latitude.t # "number"
    \/ reminder.location.longitude.t # "number"

C7_IneligibleExcluded ==
    \A i \in 1..Len(server) :
        Ineligible(server[i])
        => (sent[server[i].id] = 0 /\ server[i].id \notin triggeredReminders)

\* C8 -- Fetch failure resilience.  The step in which a handler's fetch
\* rejects or resolves not ok ends that handler, dispatches nothing, leaves
\* the triggered set, its timers and the task registration as they were, and
\* no exception leaves the handler.
C8_FetchFailureResilience ==
    [][\A p \in Procs :
          (tick[p].pc = "fetch" /\ tick'[p].pc = "idle")
          => /\ tick'[p] = IdleTick
             /\ sent' = sent
             /\ triggeredReminders' = triggeredReminders
             /\ timers' = timers
             /\ registered' = registered
             /\ ~uncaught']_vars

\* Two samples were delivered and both handlers have returned, but only one
\* ran the loop over r1: the other failed before it.  The id is still in
\* the set and the task still registered.
C8_Witness ==
    /\ server = <<R1>>
    /\ nTicks = 2
    /\ NoTickInFlight
    /\ ev["r1"] = <<T50>>
    /\ triggeredReminders = {"r1"}
    /\ registered
    /\ ui.pc = "idle"
    /\ ~stopRan

\* C9 -- Stop clears state.  When stopLocationTracking returns with no
\* handler in flight the triggered set is empty (so that the first tick
\* after the next start finds no id in it and triggers at 50 m).
C9_StopClearsState ==
    [][(StopReturns /\ NoTickInFlight) => triggeredReminders' = {}]_vars

\* C10 -- stopLocationTracking leaves the triggered set empty on every path
\* on which it returns.
C10_StopClearsOnEveryPath ==
    [][StopReturns => triggeredReminders' = {}]_vars

-----------------------------------------------------------------------------
\* Reading the call record.

StartPcs == {"start_perm", "start_query", "start_unreg", "start_reg"}
StopPcs == {"stop_query", "stop_unreg"}

\* startLocationTracking returns in this step.
StartReturns == ui.pc \in StartPcs /\ ui'.pc = "idle"

\* stopLocationTracking was the last call to return, it returned from its
\* try block, and startLocationTracking has not been called since.
StoppedSince ==
    /\ ret.op = "stop"
    /\ ret.log \in {"stopped", "notactive"}
    /\ ui.pc \notin StartPcs

\* C11 -- Nothing after stop.  From the return of stopLocationTracking to
\* the next call of startLocationTracking the triggered set is empty and no
\* location notification is dispatched, also when a handler was suspended at
\* its fetch or at its dispatch when stop was called.
C11_QuietAfterStop ==
    [][StoppedSince => (sent' = sent /\ triggeredReminders' = {})]_vars

\* C12 -- No tracking without permission.  A startLocationTracking that was
\* given a notification, foreground or background permission that is not
\* granted returns false, has made no registration or unregistration call
\* (it returns from the permission check), and no task is registered when it
\* returns.
NotGranted(perms) ==
    \/ perms.notification # "granted"
    \/ perms.foreground # "granted"
    \/ perms.background # "granted"

C12_NoTrackingWithoutPermission ==
    [][(StartReturns /\ NotGranted(ret'.perms))
       => /\ ret'.value = "false"
          /\ ui.pc = "start_perm"
          /\ registered' = registered
          /\ ~registered']_vars

\* C13 -- Start is idempotent.  A start that finds the task registered goes
\* on to unregister it; the registration call is made only while no task is
\* registered; and a start that returns true leaves the (one) task
\* registered.
C13_StartIdempotent ==
    /\ [](ui.pc = "start_reg" => ~registered)
    /\ [][(ui.pc = "start_query" /\ registered /\ ui'.pc \notin {"start_query", "idle"})
           => ui'.pc = "start_unreg"]_vars
    /\ [][(StartReturns /\ ret'.value = "true")
           => (ui.pc = "start_reg" /\ ~registered /\ registered')]_vars

\* Two successful starts in a row: the second found the first's task,
\* unregistered it and registered again.
C13_Witness ==
    /\ ret.op = "start"
    /\ ret.value = "true"
    /\ ret.before = <<"start", "started">>
    /\ registered
    /\ ui.pc = "idle"

\* C14 -- Start never throws.  Every return of startLocationTracking hands
\* true or false to the caller; a rejected permission request, is-registered
\* query, unregistration or registration gives false; true is returned only
\* from the registration call that completed, with the task registered.
C14_StartNeverThrows ==
    [][StartReturns
       => /\ ret'.op = "start"
          /\ ret'.value \in {"true", "false"}
          /\ (ret'.log \in {"error", "denied"} => ret'.value = "false")
          /\ (ret'.value = "true"
                <=> (ui.pc = "start_reg" /\ ret'.log = "started" /\ registered'))]_vars

\* The unregistration of the existing task (or the query) was rejected: false,
\* and the task is still registered.
C14_Witness ==
    /\ ret.op = "start"
    /\ ret.value = "false"
    /\ ret.log = "error"
    /\ registered
    /\ ui.pc = "idle"

StatusSteps == (ui.pc = "status" \/ ui'.pc = "status") /\ ui' # ui
StatusReturns == ui.pc = "status" /\ ui'.pc = "idle"

\* C16 -- getTrackingStatus is a pure query.  It returns true exactly when
\* the task is registered at the moment the query answers, false when the
\* query is rejected, and its steps change neither the registration nor the
\* triggered set nor its timers and dispatch nothing.
C16_StatusIsPureQuery ==
    /\ [][StatusReturns
           => /\ ret'.op = "status"
              /\ ret'.value = IF registered /\ ret'.log # "error"
                               THEN "true" ELSE "false"]_vars
    /\ [][StatusSteps
           => /\ registered' = registered
              /\ triggeredReminders' = triggeredReminders
              /\ timers' = timers
              /\ sent' = sent]_vars

\* It answered true with the task registered and r1 in the triggered set.
C16_Witness ==
    /\ ret.op = "status"
    /\ ret.value = "true"
    /\ registered
    /\ triggeredReminders = {"r1"}
    /\ ui.pc = "idle"

\* sendTestNotification is called or returns in this step.
TestSteps == (ui.pc = "test" \/ ui'.pc = "test") /\ ui' # ui
TestReturns == ui.pc = "test" /\ ui'.pc = "idle"

\* C17 -- sendTestNotification bypasses the geofence.  Whenever no call is
\* in progress it can be called, whatever the registration, the triggered
\* set and the calls made before; each call makes one attempt (it is at the
\* await of its scheduleNotificationAsync until it returns); its steps leave
\* the triggered set, its timers and the registration unchanged; and it
\* returns normally also when the scheduling is rejected.
C17_TestNotification ==
    /\ [](ui.pc = "idle" => ENABLED TestCall)
    /\ [][TestSteps
           => /\ registered' = registered
              /\ triggeredReminders' = triggeredReminders
              /\ timers' = timers
              /\ sent' = sent]_vars
    /\ [][TestReturns
           => /\ ret'.op = "test"
              /\ ret'.value = "void"
              /\ ret'.log \in {"sent", "error"}]_vars

\* Before any start call returned, with the task registered and r1
\* triggered, the scheduling of the test notification was rejected.
C17_Witness ==
    /\ ret.op = "test"
    /\ ret.log = "error"
    /\ ret.value = "void"
    /\ ret.before = <<"none", "none">>
    /\ registered
    /\ triggeredReminders = {"r1"}
    /\ ui.pc = "idle"

\* sendLocationNotification for r returns to its handler in this step.
Dispatched(r) ==
    \E p \in Procs :
        /\ tick[p].pc = "notify"
        /\ tick'[p] # tick[p]
        /\ activeReminders(tick[p].list)[tick[p].i].id = r

\* This step's loop saw r beyond the re-arm radius.
Leaves(r) ==
    /\ Len(ev'[r]) = Len(ev[r]) + 1
    /\ Far(ev'[r][Len(ev'[r])])

\* C19 -- TriggerState invariant, step by step.  An id enters the triggered
\* set exactly when the notification sent for it has returned, and leaves it
\* exactly when a tick sees the reminder beyond 200 m, one of its cooldown
\* timers runs or stopLocationTracking returns: so between ticks it is in
\* the set if and only if a notification was sent for it and none of the
\* three has happened since.
C19_TriggerState ==
    [][\A r \in Ids :
          /\ (r \notin triggeredReminders /\ r \in triggeredReminders')
                => Dispatched(r)
          /\ Dispatched(r) => r \in triggeredReminders'
          /\ (r \in triggeredReminders /\ r \notin triggeredReminders')
                => (Leaves(r) \/ Expires(r) \/ StopReturns)
          /\ (Leaves(r) \/ Expires(r) \/ StopReturns)
                => r \notin triggeredReminders']_vars

\* C20 -- Hysteresis thresholds.  When a tick computes distance d for a
\* reminder, it dispatches for it exactly when d <= 100 and its id is not in
\* the set, and the id is added when that dispatch returns; it removes an id
\* that is in the set exactly when d > 200; and no tick both dispatches for
\* a reminder and removes it.
C20_HysteresisThresholds ==
    [][\A r \in Ids :
          /\ (Len(ev'[r]) = Len(ev[r]) + 1 /\ IsTick(ev'[r][Len(ev'[r])]))
                => LET d == ev'[r][Len(ev'[r])].d.v
                   IN  /\ sent'[r] \in {sent[r], sent[r] + 1}
                       /\ (sent'[r] = sent[r] + 1)
                             <=> (d <= 100 /\ r \notin triggeredReminders)
                       /\ r \in triggeredReminders
                             => ((r \notin triggeredReminders') <=> (d > 200))
                       /\ r \notin triggeredReminders
                             => r \notin triggeredReminders'
                       /\ ~(sent'[r] > sent[r] /\ d > 200)
          /\ Dispatched(r)
                => (r \in triggeredReminders'
                    /\ ev[r][Len(ev[r])].d.v <= 100)]_vars

\* A sample at exactly 100 m of r1 triggered it and one at 300 m removed
\* it; r2, triggered at 0 m, is still in the set after a sample at exactly
\* 200 m.
C20_Witness ==
    /\ ev["r1"] = <<TickEv(Num(100)), TickEv(Num(300))>>
    /\ ev["r2"] = <<TickEv(Num(0)), TickEv(Num(200))>>
    /\ sent["r1"] = 1
    /\ sent["r2"] = 1
    /\ triggeredReminders = {"r2"}
    /\ NoTickInFlight

\* Reference distances in metres on a sphere of radius 6371 km: a tenth of
\* a degree of latitude at the equator (about 11.1 km), a quarter and a half
\* of a great circle, and three pairs by the spherical law of cosines.
\* <<lat1, lon1, lat2, lon2, metres>>, coordinates in tenths of a degree.
References ==
    { <<0, 0, 1, 0, 11100>>,
      <<0, 0, 900, 0, 10007543>>,
      <<0, 0, 0, 900, 10007543>>,
      <<0, 0, 0, 1800, 20015087>>,
      <<300, 0, 600, 900, 7154403>>,
      <<600, 0, 600, 900, 4604540>>,
      <<300, 0, 900, 0, 6671696>> }

\* d is within 0.5% of ref.
WithinTolerance(d, ref) == ~d.nan /\ Abs(d.v - ref) <= ref \div 200

\* C18 -- Distance correctness.  The distance computed for two points is 0
\* when they are the same point, is the distance computed for them in the
\* other order, and is within 0.5% of the reference distance of the pair
\* (in either order) when it has one.
C18_DistanceCorrectness ==
    calc.computed
    => /\ ~calc.distance.nan
       /\ (calc.lat1 = calc.lat2 /\ calc.lon1 = calc.lon2) => calc.distance.v = 0
       /\ calc.distance = Haversine(calc.lat2, calc.lon2, calc.lat1, calc.lon1)
       /\ \A ref \in References :
             (\/ <<calc.lat1, calc.lon1, calc.lat2, calc.lon2>>
                    = <<ref[1], ref[2], ref[3], ref[4]>>
              \/ <<calc.lat2, calc.lon2, calc.lat1, calc.lon1>>
                    = <<ref[1], ref[2], ref[3], ref[4]>>)
             => WithinTolerance(calc.distance, ref[5])

\* The distance from (0, 0) to (0.1, 0) has been computed and is about
\* 11.1 km.
C18_Witness ==
    /\ calc.lat1 = 0
    /\ calc.lon1 = 0
    /\ calc.lat2 = 1
    /\ calc.lon2 = 0
    /\ calc.computed
    /\ WithinTolerance(calc.distance, 11100)

-----------------------------------------------------------------------------
\* sendLocationNotification for r returns in this step and the OS did not
\* accept the notification.
SchedulingFails(r) == Dispatched(r) /\ delivered'[r] = delivered[r]

\* The reminders of handler p's loop after index i that this step evaluated:
\* up to the next dispatch, or to the end of the list.
EvaluatedAfter(p, i) ==
    LET list == activeReminders(tick[p].list)
        last == IF tick'[p].pc = "notify" THEN tick'[p].i ELSE Len(list)
    IN  /\ tick'[p].pc = "notify" => tick'[p].i > i
        /\ tick'[p].pc # "notify" => tick'[p] = IdleTick
        /\ \A j \in (i + 1)..last :
               Len(ev'[list[j].id]) = Len(ev[list[j].id]) + 1

\* C21 -- Dispatch failure is not rolled back.  When the scheduling of the
\* notification of a reminder is rejected, its id is still added to the
\* triggered set and its cooldown timer is still set, and the loop goes on
\* with the reminders after it; and with every tick so far within the trigger
\* radius and no notification accepted, still only one dispatch has been
\* attempted: the next tick at the same position does not retry.
C21_DispatchFailureKept ==
    /\ [][\A r \in Ids :
             SchedulingFails(r)
             => /\ r \in triggeredReminders'
                /\ timers' = timers (+) SetToBag({[id |-> r, rem |-> Cooldown]})
                /\ \A p \in Procs :
                      tick[p].pc = "notify" => EvaluatedAfter(p, tick[p].i)]_vars
    /\ [](\A r \in Ids :
             ( /\ delivered[r] = 0
               /\ ev[r] # <<>>
               /\ \A i \in 1..Len(ev[r]) : Near(ev[r][i]) )
             => sent[r] = 1)

\* Two ticks at 50 m of r1: the first one's notification was rejected, the
\* second did not try again, and both went on to r2.
C21_Witness ==
    /\ server = <<R1, R2>>
    /\ ev["r1"] = <<T50, T50>>
    /\ ev["r2"] = <<T250, T250>>
    /\ sent["r1"] = 1
    /\ delivered["r1"] = 0
    /\ triggeredReminders = {"r1"}
    /\ \E t \in BagToSet(timers) : t.id = "r1"
    /\ NoTickInFlight

\* The exits a run of the task takes: the platform's error, no data, no
\* location in the data, a response that is not ok, a rejected fetch, a
\* rejected decoding, an exception in the filter, the end of the loop.
NormalExits ==
    {<<"task", x>> : x \in {"error", "nodata", "nolocation", "notok",
                            "throws", "json", "filter", "done"}}

\* C22 -- No exception leaves the task handler.  Whatever the task is handed
\* (the error flag, no data, an empty list of locations, a sample) and
\* however the fetch, the decoding, the filter and the scheduling end, no
\* exception has left a handler, and every run of the task that is over has
\* ended by one of its normal exits.
C22_NoExceptionLeavesHandler ==
    /\ ~uncaught
    /\ \A i \in 1..Len(history) : history[i] \in NormalExits
    /\ NoTickInFlight => Len(history) = nTicks

\* Three runs: one with an empty list of locations, one whose filter met a
\* null location, and fetch rejected in the third.
C22_Witness ==
    /\ history = <<<<"task", "nolocation">>, <<"task", "filter">>,
                   <<"task", "throws">>>>
    /\ NoTickInFlight
    /\ ~uncaught

\* The server holds reminder r and it is active.
Monitored(list, r) ==
    \E i \in 1..Len(list) : list[i].id = r /\ list[i].isActive

\* C23 -- No cache.  Once a reminder is inactive on the server or absent
\* from it, and for as long as it stays so, no tick whose fetch comes after
\* the change dispatches a notification for it: from a state with no handler
\* in flight, its count of dispatches stays what it is.
C23_NoCache ==
    \A r \in Ids : \A c \in 0..(MaxServerTicks + 1) :
        []((~Monitored(server, r) /\ NoTickInFlight /\ sent[r] = c)
           => [](sent[r] = c))

\* r1 was deactivated before the first fetch; the tick at 50 m of it went
\* through r2 only.
C23_Witness ==
    /\ server = <<LocationReminder("r1", FALSE, Loc(JsNum(0), JsNum(0))), R2>>
    /\ ev["r1"] = <<>>
    /\ ev["r2"] = <<T250>>
    /\ sent["r1"] = 0
    /\ NoTickInFlight

\* C24 -- The value of startLocationTracking is the registration it leaves:
\* it returns true with the task registered and false with no task
\* registered, also when the task was registered before the call and a
\* permission or the re-registration then failed.
C24_StartResultIsRegistration ==
    [][StartReturns => ((ret'.value = "true") <=> registered')]_vars

\* An eligible reminder: active, with a location object and both coordinates.
WellFormed(reminder) ==
    /\ reminder.isActive
    /\ reminder.location.kind = "object"
    /\ reminder.location.latitude.t # "undefined"
    /\ reminder.location.longitude.t # "undefined"

\* The runs of the task that are over and had decoded the server's list.
DecodedRuns ==
    {k \in 1..Len(history) :
        history[k] \in {<<"task", "done">>, <<"task", "filter">>}}

\* C25 -- A malformed record affects only itself.  With no handler in
\* flight, every eligible reminder of the server's list has been evaluated
\* once by every run that decoded the list, whatever other records the list
\* holds (one with a null location among them).
C25_MalformedRecordIsolated ==
    NoTickInFlight
    => \A i \in 1..Len(server) :
           WellFormed(server[i])
           => Len(Ticks(server[i].id)) = Cardinality(DecodedRuns)

\* A step of a run of the task.
TickStep == tick' # tick \/ nTicks' # nTicks

\* Handler p moves in this step, r is in the eligible set of the list it
\* fetched, and the distance from its sample to r is within `near` (<= 100 m)
\* or beyond the re-arm radius (> 200 m).
MovesWith(p, r, near) ==
    /\ tick'[p] # tick[p]
    /\ tick[p].pc \in {"json", "notify"}
    /\ \E i \in 1..Len(tick[p].list) :
           LET reminder == tick[p].list[i]
               distance == calculateDistance(JsNum(tick[p].pos), JsNum(0),
                               reminder.location.latitude,
                               reminder.location.longitude)
           IN  /\ reminder.id = r
               /\ FilterKeeps(reminder)
               /\ IF near THEN LE(distance, TRIGGER_RADIUS)
                          ELSE GT(distance, REARM_RADIUS)

\* C26 -- Frame of a tick.  A step of a tick adds id r to the triggered set
\* only if r is in the eligible set of the list that tick fetched and its
\* distance is <= 100 m, and removes it only if r is in that eligible set
\* and its distance is > 200 m; the membership of every other id is left as
\* it is, so that the entry of a reminder that was deactivated or deleted,
\* or that only failed ticks have seen, stays.
C26_TickFrame ==
    [][TickStep
       => \A r \in Ids :
             /\ (r \notin triggeredReminders /\ r \in triggeredReminders')
                   => \E p \in Procs :
                         tick[p].pc = "notify" /\ MovesWith(p, r, TRUE)
             /\ (r \in triggeredReminders /\ r \notin triggeredReminders')
                   => \E p \in Procs : MovesWith(p, r, FALSE)]_vars

\* r1 was triggered at 50 m and then deactivated; the next tick, 250 m from
\* it, went through r2 only and r1 is still in the set.
C26_Witness ==
    /\ ~Monitored(server, "r1")
    /\ ev["r1"] = <<T50>>
    /\ ev["r2"] = <<T250, T50>>
    /\ "r1" \in triggeredReminders
    /\ NoTickInFlight

\* C27 -- Bounded notifications.  With serialized ticks, the notifications
\* dispatched for an id are at most one more than the times the id has been
\* taken out of the triggered set (by a tick beyond 200 m, by a cooldown
\* timer, by stopLocationTracking).
C27_BoundedNotifications ==
    \A r \in Ids : sent[r] <= 1 + removed[r]

\* Three notifications for r1, all at 50 m: one of its timers and a stop
\* took it out of the set in between.
C27_Witness ==
    /\ ev["r1"] = <<T50, ExpireEv, T50, T50>>
    /\ stopRan
    /\ sent["r1"] = 3
    /\ removed["r1"] = 2

\* C28 -- No permanent suppression.  Every id in the triggered set has a
\* pending cooldown timer, due within the cooldown (10 minutes); and with
\* time passing and due callbacks run, every id in the set leaves it, also
\* when no further tick arrives.
C28_NoPermanentSuppression ==
    /\ [](\A r \in triggeredReminders :
             \E t \in BagToSet(timers) : t.id = r /\ t.rem <= Cooldown)
    /\ \A r \in Ids :
           (r \in triggeredReminders) ~> (r \notin triggeredReminders)

\* Every sample has been delivered and stop has returned; r1, added by a
\* handler that was still in flight, is in the set with its timer due.
C28_Witness ==
    /\ nTicks = MaxCooldownTicks
    /\ NoTickInFlight
    /\ stopRan
    /\ triggeredReminders = {"r1"}
    /\ \E t \in BagToSet(timers) : t.id = "r1" /\ t.rem = 0

\* C29 -- Only startLocationTracking and stopLocationTracking change the
\* registration of the task: the registration changes in no step but the
\* return of the registration or unregistration call of one of the two, and
\* in particular in no step of a handler bound to the task name.
C29_OnlyStartStopChangeRegistration ==
    [][registered' # registered
       => /\ ui.pc \in {"start_unreg", "start_reg", "stop_unreg"}
          /\ ui' # ui
          /\ tick' = tick]_vars

\* startLocationTracking is called, moves on or returns in this step.
StartSteps == (ui.pc \in StartPcs \/ ui'.pc \in StartPcs) /\ ui' # ui

\* C30 -- startLocationTracking leaves the triggered set alone.  No step of
\* it, on any path, changes the set or its timers; so with every tick so far
\* within the trigger radius and no timer run, one notification has been
\* dispatched, however many times monitoring was restarted in between: the
\* first tick after a restart at 50 m dispatches nothing new.
C30_StartKeepsTriggered ==
    /\ [][StartSteps
           => /\ triggeredReminders' = triggeredReminders
              /\ timers' = timers
              /\ sent' = sent]_vars
    /\ [](\A r \in Ids :
             ( /\ ev[r] # <<>>
               /\ \A i \in 1..Len(ev[r]) : Near(ev[r][i]) )
             => sent[r] = 1)

\* A tick at 50 m triggered r1, startLocationTracking then returned true,
\* and the tick at 50 m after it dispatched nothing.
C30_Witness ==
    /\ history = <<<<"task", "done">>, <<"start", "started">>,
                   <<"task", "done">>>>
    /\ ev["r1"] = <<T50, T50>>
    /\ sent["r1"] = 1
    /\ "r1" \in triggeredReminders
    /\ registered

====
